---- MODULE Spec2Model ----
(***************************************************************************)
(* Agent handoff and context continuity in the two voice applications      *)
(* medical_office_triage/triage.py and personal_shopper/personal_shopper.py*)
(* Both share BaseAgent: on_enter, _truncate_chat_ctx, _transfer_to_agent.  *)
(* Agent instances are named by their class names; the registry            *)
(* (UserData.personas) maps role names to instances.                       *)
(***************************************************************************)
EXTENDS Integers, Sequences, FiniteSets, TLC

\* ---------------------------------------------------------------- bounds
\* largest id the conversation hands out to a dialogue item
MaxId == 5
\* most transfer tool calls the driver delivers for one user utterance
MaxCalls == 2
\* longest history given to _truncate_chat_ctx in the unit specification
MaxLen == 4
\* largest keep_last_n_messages tried in the unit specification
MaxKeep == 3

\* largest id an item has when a transfer is still delivered in the
\* personal shopper specification
MaxEntries == 3
\* most line items of one order
MaxItems == 2
\* most rows of the orders table
MaxOrders == 2
\* most collaborator calls that raise in one conversation
MaxFaults == 1
\* longest conversation the first role has had when it hands over in the
\* long conversation specification
MaxTail == 7

\* default of keep_last_n_messages
KeepLastN == 6

None == "None"

VARIABLES
    app,          \* which application runs: "medical" or "shopper"
    current,      \* session.current_agent (an agent instance)
    prev_agent,   \* UserData.prev_agent (an agent instance or None)
    chat_ctx,     \* agent instance -> its chat_ctx.items
    nextId,       \* id the next new dialogue item gets
    phase,        \* where the conversation is: on_enter steps, idle, tools
    calls,        \* transfer tool calls of the current utterance
    said,         \* announcements issued (session.say) for the current utterance
    attribute,    \* local participant attribute "agent"
    reply,        \* session.generate_reply() requested for the active role
    lastError,    \* exception raised by the last failed transfer attempt
    activeBefore, \* the instance that was active before the current one
    tIn,          \* unit specification: arguments of _truncate_chat_ctx
    tOut,         \* unit specification: its result
    tDone,        \* unit specification: the call has returned
    first_name,   \* UserData.first_name
    last_name,    \* UserData.last_name
    customer_id,  \* UserData.customer_id
    current_order,\* UserData.current_order: None or the sequence of its items
    customers,    \* table customers: row i has id i
    orders,       \* table orders: row i has id i
    lastResult,   \* the last role action called and what it returned
    orderOwner,   \* customer_id that was identified when current_order was created
    resolved,     \* name pair -> the id its first identification resolved to
    enterFault,   \* which step of the latest on_enter raised, if any
    faults        \* how many collaborator calls have raised so far

vars == <<app, current, prev_agent, chat_ctx, nextId, phase, calls, said,
          attribute, reply, lastError, activeBefore, tIn, tOut, tDone,
          first_name, last_name, customer_id, current_order, customers, orders,
          lastResult, orderOwner, resolved, enterFault, faults>>

\* UserData of the personal shopper and its database
shopVars == <<first_name, last_name, customer_id, current_order, customers, orders,
              lastResult, orderOwner, resolved>>

\* ------------------------------------------------------- dialogue items
CallTypes == {"function_call", "function_call_output"}

Message(id, role, content) ==
    [id |-> id, type |-> "message", role |-> role, content |-> content]

FunctionCall(id) ==
    [id |-> id, type |-> "function_call", role |-> None, content |-> "call"]

FunctionCallOutput(id) ==
    [id |-> id, type |-> "function_call_output", role |-> None, content |-> "output"]

ItemKinds == {"system", "user", "assistant", "function_call", "function_call_output"}

ItemOfKind(id, kind) ==
    IF kind = "function_call" THEN FunctionCall(id)
    ELSE IF kind = "function_call_output" THEN FunctionCallOutput(id)
    ELSE Message(id, kind, "text")

\* --------------------------------------------------- _truncate_chat_ctx
\* faulty variant: system messages are kept whatever the flag says
ValidItemKeepsSystem(item, keep_system_message, keep_function_call) ==
    ~(~keep_function_call /\ item.type \in CallTypes)

\* _valid_item
ValidItem(item, keep_system_message, keep_function_call) ==
    IF ~keep_system_message /\ item.type = "message" /\ item.role = "system"
    THEN FALSE
    ELSE IF ~keep_function_call /\ item.type \in CallTypes
    THEN FALSE
    ELSE TRUE

\* the loop over reversed(items): i is the position being visited,
\* new_items what has been collected so far
RECURSIVE CollectReversed(_, _, _, _, _, _)
CollectReversed(items, i, new_items, n, ks, kf) ==
    IF i < 1 THEN new_items
    ELSE LET appended == IF ValidItem(items[i], ks, kf)
                         THEN Append(new_items, items[i])
                         ELSE new_items
         IN  IF Len(appended) >= n THEN appended
             ELSE CollectReversed(items, i - 1, appended, n, ks, kf)

\* new_items[::-1]
Reverse(s) == [i \in 1..Len(s) |-> s[Len(s) + 1 - i]]

\* while new_items and new_items[0].type in [...]: new_items.pop(0)
RECURSIVE DropLeadingCalls(_)
DropLeadingCalls(s) ==
    IF s # <<>> /\ s[1].type \in CallTypes THEN DropLeadingCalls(Tail(s)) ELSE s

\* faulty variant: the leading call items are kept
TruncateKeepsLeadingCalls(items, n, ks, kf) ==
    Reverse(CollectReversed(items, Len(items), <<>>, n, ks, kf))

\* faulty variant: the collected items are not put back in chronological order
TruncateNotReversed(items, n, ks, kf) ==
    DropLeadingCalls(CollectReversed(items, Len(items), <<>>, n, ks, kf))

TruncateChatCtx(items, n, ks, kf) ==
    DropLeadingCalls(Reverse(CollectReversed(items, Len(items), <<>>, n, ks, kf)))

\* faulty variant: the list passed in is truncated in place
TruncateEffectInPlace(items, n, ks, kf) ==
    [ret |-> TruncateChatCtx(items, n, ks, kf),
     items |-> TruncateChatCtx(items, n, ks, kf)]

\* one call of _truncate_chat_ctx: what it returns and what the list it
\* was given holds afterwards (new_items is a new list; items is only read)
TruncateEffect(items, n, ks, kf) ==
    [ret |-> TruncateChatCtx(items, n, ks, kf), items |-> items]

\* ------------------------------------------------ applications and roles
Apps == {"medical", "shopper"}

\* userdata.personas.update({...}) in entrypoint
Personas(a) ==
    IF a = "medical"
    THEN [triage |-> "TriageAgent", support |-> "SupportAgent", billing |-> "BillingAgent"]
    ELSE [triage |-> "TriageAgent", sales |-> "SalesAgent", returns |-> "ReturnsAgent"]

Instances(a) == {Personas(a)[n] : n \in DOMAIN Personas(a)}

\* faulty variant: BillingAgent.transfer_to_support and
\* ReturnsAgent.transfer_to_sales name their own role
TransferToolsSelfTarget(a, agent) ==
    IF a = "medical" THEN
        CASE agent = "TriageAgent" ->
                [transfer_to_support |-> "support", transfer_to_billing |-> "billing"]
          [] agent = "SupportAgent" ->
                [transfer_to_triage |-> "triage", transfer_to_billing |-> "billing"]
          [] agent = "BillingAgent" ->
                [transfer_to_triage |-> "triage", transfer_to_support |-> "billing"]
    ELSE
        CASE agent = "TriageAgent" ->
                [transfer_to_sales |-> "sales", transfer_to_returns |-> "returns"]
          [] agent = "SalesAgent" ->
                [transfer_to_triage |-> "triage", transfer_to_returns |-> "returns"]
          [] agent = "ReturnsAgent" ->
                [transfer_to_triage |-> "triage", transfer_to_sales |-> "returns"]

\* the transfer tools each agent class defines, with the name each passes
\* to _transfer_to_agent
TransferTools(a, agent) ==
    IF a = "medical" THEN
        CASE agent = "TriageAgent" ->
                [transfer_to_support |-> "support", transfer_to_billing |-> "billing"]
          [] agent = "SupportAgent" ->
                [transfer_to_triage |-> "triage", transfer_to_billing |-> "billing"]
          [] agent = "BillingAgent" ->
                [transfer_to_triage |-> "triage", transfer_to_support |-> "support"]
    ELSE
        CASE agent = "TriageAgent" ->
                [transfer_to_sales |-> "sales", transfer_to_returns |-> "returns"]
          [] agent = "SalesAgent" ->
                [transfer_to_triage |-> "triage", transfer_to_returns |-> "returns"]
          [] agent = "ReturnsAgent" ->
                [transfer_to_triage |-> "triage", transfer_to_sales |-> "sales"]

AllToolNames == {"transfer_to_triage", "transfer_to_support", "transfer_to_billing",
                 "transfer_to_sales", "transfer_to_returns"}


\* ---------------------------------------------------------- on_enter
\* faulty variant: everybody counts as identified
IsIdentifiedAlways(first, last) == TRUE

\* UserData.is_identified
IsIdentified(first, last) == first # None /\ last # None

\* UserData.summarize: a fixed text in the medical office; in the personal
\* shopper the customer's names and id, or that nobody is identified yet
Summarize(a, first, last, cid) ==
    IF a = "medical" THEN [text |-> "medical_office_triage"]
    ELSE IF IsIdentified(first, last)
    THEN [text |-> "customer", first_name |-> first, last_name |-> last,
          customer_id |-> cid]
    ELSE [text |-> "not_identified"]

\* chat_ctx.add_message(role="system",
\*                      content=f"... {agent_name} ... {userdata.summarize()}")
SystemMessage(id, agent_name) ==
    [id |-> id, type |-> "message", role |-> "system", content |-> agent_name,
     summary |-> Summarize(app, first_name, last_name, customer_id)]

IdsOf(items) == {items[i].id : i \in 1..Len(items)}

\* faulty variant: the truncated items are appended without the existing_ids filter
OnEnterCtxNoDedup(self, prev, ctx, id) ==
    LET items_copy == IF prev # None
                      THEN TruncateChatCtx(ctx[prev], KeepLastN, FALSE, TRUE)
                      ELSE <<>>
    IN  Append(ctx[self] \o items_copy, SystemMessage(id, self))

\* faulty variant: the items of prev_agent are truncated without
\* keep_function_call=True
OnEnterCtxDropsCalls(self, prev, ctx, id) ==
    LET own == ctx[self]
        items_copy == IF prev # None
                      THEN TruncateChatCtx(ctx[prev], KeepLastN, FALSE, FALSE)
                      ELSE <<>>
        existing_ids == IdsOf(own)
        fresh == SelectSeq(items_copy, LAMBDA item : item.id \notin existing_ids)
    IN  Append(own \o fresh, SystemMessage(id, self))

\* faulty variant: the system message is added before the items of
\* prev_agent
OnEnterCtxSystemFirst(self, prev, ctx, id) ==
    LET own == ctx[self]
        items_copy == IF prev # None
                      THEN TruncateChatCtx(ctx[prev], KeepLastN, FALSE, TRUE)
                      ELSE <<>>
        existing_ids == IdsOf(own)
        fresh == SelectSeq(items_copy, LAMBDA item : item.id \notin existing_ids)
    IN  Append(own, SystemMessage(id, self)) \o fresh

\* the context on_enter commits with update_chat_ctx: the copy of the
\* agent's own context, the truncated items of prev_agent that are not in
\* it yet, and a new system message with id `id`
OnEnterCtx(self, prev, ctx, id) ==
    LET own == ctx[self]
        items_copy == IF prev # None
                      THEN TruncateChatCtx(ctx[prev], KeepLastN, FALSE, TRUE)
                      ELSE <<>>
        existing_ids == IdsOf(own)
        fresh == SelectSeq(items_copy, LAMBDA item : item.id \notin existing_ids)
    IN  Append(own \o fresh, SystemMessage(id, self))

\* every agent's context after on_enter of `self` has committed: the
\* list of prev_agent as _truncate_chat_ctx leaves it, the context of
\* `self` replaced by the merged copy
OnEnterCommit(self, prev, ctx, id) ==
    LET afterTruncate ==
            IF prev # None
            THEN [ctx EXCEPT ![prev] = TruncateEffect(@, KeepLastN, FALSE, TRUE).items]
            ELSE ctx
    IN  [afterTruncate EXCEPT ![self] = OnEnterCtx(self, prev, ctx, id)]

\* await room.local_participant.set_attributes({"agent": agent_name})
OnEnterSetAttributes ==
    /\ phase = "enter_attr"
    /\ attribute' = current
    /\ phase' = "enter_merge"
    /\ UNCHANGED <<app, current, prev_agent, chat_ctx, nextId, calls, said,
                   reply, lastError, activeBefore, tIn, tOut, tDone, shopVars, enterFault, faults>>

\* chat_ctx.copy() ... await self.update_chat_ctx(chat_ctx)
OnEnterUpdateChatCtx ==
    /\ phase = "enter_merge"
    /\ chat_ctx' = OnEnterCommit(current, prev_agent, chat_ctx, nextId)
    /\ nextId' = nextId + 1
    /\ phase' = "enter_reply"
    /\ UNCHANGED <<app, current, prev_agent, calls, said, attribute,
                   reply, lastError, activeBefore, tIn, tOut, tDone, shopVars, enterFault, faults>>

\* self.session.generate_reply()
OnEnterGenerateReply ==
    /\ phase = "enter_reply"
    /\ reply' = TRUE
    /\ phase' = "idle"
    /\ UNCHANGED <<app, current, prev_agent, chat_ctx, nextId, calls, said,
                   attribute, lastError, activeBefore, tIn, tOut, tDone, shopVars, enterFault, faults>>

\* ------------------------------------------------- _transfer_to_agent
\* faulty variant: prev_agent is assigned before the registry lookup
TransferToAgentAssignsFirst(name, cur, prev, a) ==
    IF name \in DOMAIN Personas(a)
    THEN [raised |-> FALSE, prev_agent |-> cur, ret |-> Personas(a)[name]]
    ELSE [raised |-> TRUE, prev_agent |-> cur, ret |-> None]

\* faulty variant: prev_agent is set to the target instead of the current agent
TransferToAgentPrevIsNext(name, cur, prev, a) ==
    IF name \in DOMAIN Personas(a)
    THEN [raised |-> FALSE, prev_agent |-> Personas(a)[name], ret |-> Personas(a)[name]]
    ELSE [raised |-> TRUE, prev_agent |-> prev, ret |-> None]

\* faulty variant: prev_agent is not recorded
TransferToAgentForgetsPrev(name, cur, prev, a) ==
    IF name \in DOMAIN Personas(a)
    THEN [raised |-> FALSE, prev_agent |-> None, ret |-> Personas(a)[name]]
    ELSE [raised |-> TRUE, prev_agent |-> prev, ret |-> None]

\* next_agent = userdata.personas[name] (KeyError when name is no key),
\* then userdata.prev_agent = current_agent; returns next_agent
TransferToAgent(name, cur, prev, a) ==
    IF name \in DOMAIN Personas(a)
    THEN [raised |-> FALSE, prev_agent |-> cur, ret |-> Personas(a)[name]]
    ELSE [raised |-> TRUE, prev_agent |-> prev, ret |-> None]

\* ------------------------------------------------------ transfer tools
\* faulty variant: the tool switches first and announces afterwards
ToolStepsTransferFirst == <<"transfer", "say">>

\* body of every transfer_to_* tool: await self.session.say(...), then
\* return await self._transfer_to_agent(name, context)
ToolSteps == <<"say", "transfer">>

Returned == Len(ToolSteps) + 1

NewCall(tool) ==
    [tool |-> tool, step |-> 1, announced |-> FALSE, raised |-> FALSE, ret |-> None]

\* await self.session.say(message)
ToolSay(i) ==
    /\ phase = "tools"
    /\ i \in DOMAIN calls
    /\ calls[i].step < Returned
    /\ ToolSteps[calls[i].step] = "say"
    /\ calls' = [calls EXCEPT ![i].announced = TRUE, ![i].step = @ + 1]
    /\ said' = said + 1
    /\ UNCHANGED <<app, current, prev_agent, chat_ctx, nextId, phase, attribute,
                   reply, lastError, activeBefore, tIn, tOut, tDone, shopVars, enterFault, faults>>

\* return await self._transfer_to_agent(name, context)
ToolTransferToAgent(i) ==
    /\ phase = "tools"
    /\ i \in DOMAIN calls
    /\ calls[i].step < Returned
    /\ ToolSteps[calls[i].step] = "transfer"
    /\ LET r == TransferToAgent(TransferTools(app, current)[calls[i].tool],
                                current, prev_agent, app)
       IN  /\ prev_agent' = r.prev_agent
           /\ calls' = [calls EXCEPT ![i].raised = r.raised, ![i].ret = r.ret,
                                     ![i].step = @ + 1]
           /\ lastError' = IF r.raised THEN "KeyError" ELSE lastError
    /\ UNCHANGED <<app, current, chat_ctx, nextId, phase, said, attribute,
                   reply, activeBefore, tIn, tOut, tDone, shopVars, enterFault, faults>>

\* ------------------------------------------------- conversation driver
AppendKinds == {"user", "assistant", "function_call", "function_call_output"}

\* the active role's history grows while it is active
AppendItem(kind) ==
    /\ phase = "idle"
    /\ nextId <= MaxId
    /\ chat_ctx' = [chat_ctx EXCEPT ![current] = Append(@, ItemOfKind(nextId, kind))]
    /\ nextId' = nextId + 1
    /\ UNCHANGED <<app, current, prev_agent, phase, calls, said, attribute,
                   reply, lastError, activeBefore, tIn, tOut, tDone, shopVars, enterFault, faults>>

ToolSeqs(tools) == UNION {[1..n -> tools] : n \in 1..MaxCalls}

\* one user utterance is mapped to one or more transfer tools of the
\* active role; their coroutines run concurrently
DeliverTransfers(ts) ==
    /\ phase = "idle"
    /\ lastError = None
    /\ nextId <= MaxId
    /\ ts \in ToolSeqs(DOMAIN TransferTools(app, current))
    /\ calls' = [i \in 1..Len(ts) |-> NewCall(ts[i])]
    /\ said' = 0
    /\ reply' = FALSE
    /\ phase' = "tools"
    /\ UNCHANGED <<app, current, prev_agent, chat_ctx, nextId, attribute,
                   lastError, activeBefore, tIn, tOut, tDone, shopVars, enterFault, faults>>

\* a tool name the active role does not define cannot be dispatched
DeliverUnknownTool(t) ==
    /\ phase = "idle"
    /\ lastError = None
    /\ t \notin DOMAIN TransferTools(app, current)
    /\ lastError' = "UnknownAction"
    /\ UNCHANGED <<app, current, prev_agent, chat_ctx, nextId, phase, calls, said,
                   attribute, reply, activeBefore, tIn, tOut, tDone, shopVars, enterFault, faults>>

\* the failure is logged and the conversation stays in the current role
ReportError ==
    /\ lastError # None
    /\ lastError' = None
    /\ UNCHANGED <<app, current, prev_agent, chat_ctx, nextId, phase, calls, said,
                   attribute, reply, activeBefore, tIn, tOut, tDone, shopVars, enterFault, faults>>

ReturnedAgents == {i \in DOMAIN calls : calls[i].ret # None}

\* every tool of the utterance has returned: the session switches to one
\* returned agent, whose on_enter then runs
Handoff ==
    /\ phase = "tools"
    /\ \A i \in DOMAIN calls : calls[i].step = Returned
    /\ IF ReturnedAgents = {}
       THEN /\ phase' = "idle"
            /\ UNCHANGED <<current, activeBefore>>
       ELSE /\ \E i \in ReturnedAgents : current' = calls[i].ret
            /\ activeBefore' = current
            /\ phase' = "enter_attr"
    /\ calls' = <<>>
    /\ enterFault' = None
    /\ UNCHANGED <<app, prev_agent, chat_ctx, nextId, said, attribute,
                   reply, lastError, tIn, tOut, tDone, shopVars, faults>>

\* _transfer_to_agent called with an arbitrary name by the active role
DirectNames == {"triage", "support", "billing", "sales", "returns", "reception"}

DirectTransfer(name) ==
    /\ phase = "idle"
    /\ lastError = None
    /\ nextId <= MaxId
    /\ LET r == TransferToAgent(name, current, prev_agent, app)
       IN  /\ prev_agent' = r.prev_agent
           /\ IF r.raised
              THEN /\ lastError' = "KeyError"
                   /\ UNCHANGED <<current, activeBefore, phase, reply>>
              ELSE /\ current' = r.ret
                   /\ activeBefore' = current
                   /\ phase' = "enter_attr"
                   /\ reply' = FALSE
                   /\ UNCHANGED lastError
    /\ said' = 0
    /\ enterFault' = None
    /\ UNCHANGED <<app, chat_ctx, nextId, calls, attribute, tIn, tOut, tDone, shopVars, faults>>

\* ------------------------------------------ personal shopper: database
\* the customers the conversation may identify (first name, last name)
Names == {<<"Taro", "Yamada">>, <<"Taro", "Suzuki">>}

\* faulty variant: a row is inserted without looking for an existing one
GetOrCreateCustomerAlwaysInserts(first, last, table) ==
    [id |-> Len(table) + 1,
     customers |-> Append(table, [first_name |-> first, last_name |-> last])]

\* CustomerDatabase.get_or_create_customer: SELECT id ... WHERE first_name
\* = ? AND last_name = ?, fetchone; INSERT and lastrowid when there is none
GetOrCreateCustomer(first, last, table) ==
    LET found == {i \in 1..Len(table) :
                     table[i].first_name = first /\ table[i].last_name = last}
    IN  IF found # {}
        THEN [id |-> CHOOSE i \in found : \A j \in found : i <= j, customers |-> table]
        ELSE [id |-> Len(table) + 1,
              customers |-> Append(table, [first_name |-> first, last_name |-> last])]

\* CustomerDatabase.add_order: INSERT INTO orders (customer_id, order_details)
AddOrder(cid, order_details, table) ==
    [order_id |-> Len(table) + 1,
     orders |-> Append(table, [customer_id |-> cid, order_details |-> order_details])]

\* CustomerDatabase.get_customer_order_history: which text it returns
GetCustomerOrderHistory(first, last, ctable, otable) ==
    LET found == {i \in 1..Len(ctable) :
                     ctable[i].first_name = first /\ ctable[i].last_name = last}
    IN  IF found = {} THEN "no_customer"
        ELSE LET cid == CHOOSE i \in found : \A j \in found : i <= j
             IN  IF \A k \in 1..Len(otable) : otable[k].customer_id # cid
                 THEN "no_orders"
                 ELSE "history"

\* ------------------------------------------- personal shopper: UserData
\* customer_id: str | None = None (the ids of the table start at 1)
NoId == 0

\* current_order: dict | None = None
NoOrder == [none |-> TRUE]

\* the record of a role action: its name, what it returned, and a bit
\* that every role action flips
Result(op, ret) == [op |-> op, ret |-> ret, flip |-> ~lastResult.flip]

\* what add_item_to_order is called with
Catalog == {[name |-> "tea", quantity |-> 2, price |-> 100],
            [name |-> "cup", quantity |-> 1, price |-> 50]}

\* faulty variant: the quantity is left out of the total
RECURSIVE OrderTotalOfPrices(_)
OrderTotalOfPrices(items) ==
    IF items = <<>> THEN 0
    ELSE items[1].price + OrderTotalOfPrices(Tail(items))

\* sum(item["price"] * item["quantity"] for item in current_order["items"])
RECURSIVE OrderTotal(_)
OrderTotal(items) ==
    IF items = <<>> THEN 0
    ELSE items[1].price * items[1].quantity + OrderTotal(Tail(items))

\* faulty variant: the order is tested before the identity
CompleteOrderChecksOrderFirst(first, last, cid, order, table) ==
    IF order = NoOrder \/ order.items = <<>>
    THEN [ret |-> "empty_order", current_order |-> order, orders |-> table]
    ELSE IF ~IsIdentified(first, last)
    THEN [ret |-> "identify_first", current_order |-> order, orders |-> table]
    ELSE [ret |-> "order_completed", current_order |-> NoOrder,
          orders |-> AddOrder(cid, [items |-> order.items,
                                    total |-> OrderTotal(order.items)], table).orders]

\* faulty variant: an order without items is saved too
CompleteOrderSavesEmpty(first, last, cid, order, table) ==
    IF ~IsIdentified(first, last)
    THEN [ret |-> "identify_first", current_order |-> order, orders |-> table]
    ELSE IF order = NoOrder
    THEN [ret |-> "empty_order", current_order |-> order, orders |-> table]
    ELSE [ret |-> "order_completed", current_order |-> NoOrder,
          orders |-> AddOrder(cid, [items |-> order.items,
                                    total |-> OrderTotal(order.items)], table).orders]

\* SalesAgent.complete_order: what it returns, current_order and the
\* orders table afterwards
CompleteOrder(first, last, cid, order, table) ==
    IF ~IsIdentified(first, last)
    THEN [ret |-> "identify_first", current_order |-> order, orders |-> table]
    ELSE IF order = NoOrder \/ order.items = <<>>
    THEN [ret |-> "empty_order", current_order |-> order, orders |-> table]
    ELSE [ret |-> "order_completed", current_order |-> NoOrder,
          orders |-> AddOrder(cid, [items |-> order.items,
                                    total |-> OrderTotal(order.items)], table).orders]

\* ---------------------------------------- personal shopper: role actions
\* TriageAgent / SalesAgent / ReturnsAgent.identify_customer
IdentifyCustomer(p) ==
    /\ app = "shopper"
    /\ phase = "idle"
    /\ p \in Names
    /\ LET r == GetOrCreateCustomer(p[1], p[2], customers)
       IN  /\ first_name' = p[1]
           /\ last_name' = p[2]
           /\ customer_id' = r.id
           /\ customers' = r.customers
           /\ resolved' = IF resolved[p] = 0 THEN [resolved EXCEPT ![p] = r.id]
                          ELSE resolved
    /\ lastResult' = Result("identify_customer", "identified")
    /\ UNCHANGED <<app, current, prev_agent, chat_ctx, nextId, phase, calls, said,
                   attribute, reply, lastError, activeBefore, tIn, tOut, tDone,
                   current_order, orders, orderOwner, enterFault, faults>>

\* faulty variant: start_order keeps an order that is in progress
StartOrderKeepsItems ==
    /\ app = "shopper"
    /\ phase = "idle"
    /\ current = "SalesAgent"
    /\ IF ~IsIdentified(first_name, last_name)
       THEN /\ lastResult' = Result("start_order", "identify_first")
            /\ UNCHANGED <<current_order, orderOwner>>
       ELSE /\ current_order' = IF current_order = NoOrder THEN [items |-> <<>>]
                                ELSE current_order
            /\ orderOwner' = customer_id
            /\ lastResult' = Result("start_order", "order_started")
    /\ UNCHANGED <<app, current, prev_agent, chat_ctx, nextId, phase, calls, said,
                   attribute, reply, lastError, activeBefore, tIn, tOut, tDone,
                   first_name, last_name, customer_id, customers, orders,
                   resolved, enterFault, faults>>

\* SalesAgent.start_order
StartOrder ==
    /\ app = "shopper"
    /\ phase = "idle"
    /\ current = "SalesAgent"
    /\ IF ~IsIdentified(first_name, last_name)
       THEN /\ lastResult' = Result("start_order", "identify_first")
            /\ UNCHANGED <<current_order, orderOwner>>
       ELSE /\ current_order' = [items |-> <<>>]
            /\ orderOwner' = customer_id
            /\ lastResult' = Result("start_order", "order_started")
    /\ UNCHANGED <<app, current, prev_agent, chat_ctx, nextId, phase, calls, said,
                   attribute, reply, lastError, activeBefore, tIn, tOut, tDone,
                   first_name, last_name, customer_id, customers, orders,
                   resolved, enterFault, faults>>

\* SalesAgent.add_item_to_order
AddItemToOrder(item) ==
    /\ app = "shopper"
    /\ phase = "idle"
    /\ current = "SalesAgent"
    /\ current_order # NoOrder => Len(current_order.items) < MaxItems
    /\ IF ~IsIdentified(first_name, last_name)
       THEN /\ lastResult' = Result("add_item_to_order", "identify_first")
            /\ UNCHANGED <<current_order, orderOwner>>
       ELSE /\ LET order == IF current_order = NoOrder THEN [items |-> <<>>]
                            ELSE current_order
               IN  current_order' = [order EXCEPT !.items = Append(@, item)]
            /\ orderOwner' = IF current_order = NoOrder THEN customer_id ELSE orderOwner
            /\ lastResult' = Result("add_item_to_order", "item_added")
    /\ UNCHANGED <<app, current, prev_agent, chat_ctx, nextId, phase, calls, said,
                   attribute, reply, lastError, activeBefore, tIn, tOut, tDone,
                   first_name, last_name, customer_id, customers, orders,
                   resolved, enterFault, faults>>

\* SalesAgent.complete_order
CompleteOrderTool ==
    /\ app = "shopper"
    /\ phase = "idle"
    /\ current = "SalesAgent"
    /\ Len(orders) < MaxOrders
    \* orders.customer_id is INTEGER NOT NULL: the insert of an order without
    \* a customer id cannot succeed (see CompleteOrderStoreFails)
    /\ CompleteOrder(first_name, last_name, customer_id, current_order, orders).ret
           = "order_completed" => customer_id # NoId
    /\ LET r == CompleteOrder(first_name, last_name, customer_id, current_order, orders)
       IN  /\ lastResult' = Result("complete_order", r.ret)
           /\ current_order' = r.current_order
           /\ orders' = r.orders
           /\ orderOwner' = IF r.current_order = NoOrder THEN NoId ELSE orderOwner
    /\ UNCHANGED <<app, current, prev_agent, chat_ctx, nextId, phase, calls, said,
                   attribute, reply, lastError, activeBefore, tIn, tOut, tDone,
                   first_name, last_name, customer_id, customers, resolved, enterFault, faults>>

\* ReturnsAgent.get_order_history
GetOrderHistory ==
    /\ app = "shopper"
    /\ phase = "idle"
    /\ current = "ReturnsAgent"
    /\ lastResult' = Result("get_order_history",
                            IF ~IsIdentified(first_name, last_name) THEN "identify_first"
                            ELSE GetCustomerOrderHistory(first_name, last_name,
                                                         customers, orders))
    /\ UNCHANGED <<app, current, prev_agent, chat_ctx, nextId, phase, calls, said,
                   attribute, reply, lastError, activeBefore, tIn, tOut, tDone,
                   first_name, last_name, customer_id, current_order, customers,
                   orders, orderOwner, resolved, enterFault, faults>>

\* ------------------------------------------------- failing collaborators
\* No role action and no step of on_enter has an exception handler: an
\* exception of a collaborator leaves the coroutine at the awaiting line.

\* outcome of a role action that was left by an exception
Raised == "raised"

\* identify_customer, db.get_or_create_customer raises: both names are
\* already assigned, customer_id keeps its value, nothing is committed
IdentifyCustomerStoreFails(p) ==
    /\ app = "shopper"
    /\ phase = "idle"
    /\ lastError = None
    /\ p \in Names
    /\ first_name' = p[1]
    /\ last_name' = p[2]
    /\ lastResult' = Result("identify_customer", Raised)
    /\ faults < MaxFaults
    /\ faults' = faults + 1
    /\ lastError' = "StoreError"
    /\ UNCHANGED <<app, current, prev_agent, chat_ctx, nextId, phase, calls, said,
                   attribute, reply, activeBefore, tIn, tOut, tDone,
                   customer_id, current_order, customers, orders, orderOwner,
                   resolved, enterFault>>

\* complete_order, db.add_order raises: the total is already stored in
\* current_order, the order is neither saved nor cleared
CompleteOrderStoreFails ==
    /\ app = "shopper"
    /\ phase = "idle"
    /\ lastError = None
    /\ current = "SalesAgent"
    /\ CompleteOrder(first_name, last_name, customer_id, current_order, orders).ret
           = "order_completed"
    /\ current_order' = [items |-> current_order.items,
                         total |-> OrderTotal(current_order.items)]
    /\ lastResult' = Result("complete_order", Raised)
    /\ faults < MaxFaults
    /\ faults' = faults + 1
    /\ lastError' = "StoreError"
    /\ UNCHANGED <<app, current, prev_agent, chat_ctx, nextId, phase, calls, said,
                   attribute, reply, activeBefore, tIn, tOut, tDone,
                   first_name, last_name, customer_id, customers, orders,
                   orderOwner, resolved, enterFault>>

\* get_order_history, db.get_customer_order_history raises
GetOrderHistoryStoreFails ==
    /\ app = "shopper"
    /\ phase = "idle"
    /\ lastError = None
    /\ current = "ReturnsAgent"
    /\ IsIdentified(first_name, last_name)
    /\ lastResult' = Result("get_order_history", Raised)
    /\ faults < MaxFaults
    /\ faults' = faults + 1
    /\ lastError' = "StoreError"
    /\ UNCHANGED <<app, current, prev_agent, chat_ctx, nextId, phase, calls, said,
                   attribute, reply, activeBefore, tIn, tOut, tDone,
                   first_name, last_name, customer_id, current_order, customers,
                   orders, orderOwner, resolved, enterFault>>

\* on_enter, set_attributes raises: on_enter ends there, before the copy
\* of the context and before generate_reply
OnEnterSetAttributesFails ==
    /\ phase = "enter_attr"
    /\ enterFault' = "set_attributes"
    /\ faults < MaxFaults
    /\ faults' = faults + 1
    /\ lastError' = "AttributesError"
    /\ phase' = "idle"
    /\ UNCHANGED <<app, current, prev_agent, chat_ctx, nextId, calls, said,
                   attribute, reply, activeBefore, tIn, tOut, tDone, shopVars>>

\* on_enter, _truncate_chat_ctx or the merge raises on the previous
\* history: the work was done on a copy, the agent's own chat_ctx is as it
\* was, and on_enter ends before update_chat_ctx and generate_reply
OnEnterMergeFails ==
    /\ phase = "enter_merge"
    /\ prev_agent # None
    /\ enterFault' = "merge"
    /\ faults < MaxFaults
    /\ faults' = faults + 1
    /\ lastError' = "MergeError"
    /\ phase' = "idle"
    /\ UNCHANGED <<app, current, prev_agent, chat_ctx, nextId, calls, said,
                   attribute, reply, activeBefore, tIn, tOut, tDone, shopVars>>

\* transfer tool, session.say raises: the tool ends there and
\* _transfer_to_agent is not called
ToolSayFails(i) ==
    /\ phase = "tools"
    /\ i \in DOMAIN calls
    /\ calls[i].step < Returned
    /\ ToolSteps[calls[i].step] = "say"
    /\ calls' = [calls EXCEPT ![i].raised = TRUE, ![i].step = Returned]
    /\ faults < MaxFaults
    /\ faults' = faults + 1
    /\ lastError' = "SayError"
    /\ UNCHANGED <<app, current, prev_agent, chat_ctx, nextId, phase, said, attribute,
                   reply, activeBefore, tIn, tOut, tDone, shopVars, enterFault>>

\* ------------------------------------------------------ specifications
\* the agents TriageAgent's transfer tools of the medical office return
TransferTargetsOfTriage ==
    {Personas("medical")[TransferTools("medical", "TriageAgent")[t]] :
        t \in DOMAIN TransferTools("medical", "TriageAgent")}

\* UserData(ctx=ctx): no customer, no order; the database has its two
\* tables, empty
InitUserData ==
    /\ first_name = None
    /\ last_name = None
    /\ customer_id = NoId
    /\ current_order = NoOrder
    /\ customers = <<>>
    /\ orders = <<>>
    /\ lastResult = [op |-> None, ret |-> None, flip |-> FALSE]
    /\ orderOwner = NoId
    /\ resolved = [p \in Names |-> 0]

NoTruncateCall == [items |-> <<>>, n |-> 0, ks |-> FALSE, kf |-> FALSE]

\* entrypoint: the registry is filled, the session starts with the triage
\* agent, whose on_enter is about to run
InitHandoff(a) ==
    /\ app = a
    /\ current = Personas(a)["triage"]
    /\ prev_agent = None
    /\ chat_ctx = [r \in Instances(a) |-> <<>>]
    /\ nextId = 1
    /\ phase = "enter_attr"
    /\ calls = <<>>
    /\ said = 0
    /\ attribute = None
    /\ reply = FALSE
    /\ lastError = None
    /\ activeBefore = None
    /\ enterFault = None
    /\ faults = 0
    /\ InitUserData

Init ==
    /\ \E a \in Apps : InitHandoff(a)
    /\ tIn = NoTruncateCall
    /\ tOut = <<>>
    /\ tDone = FALSE

Next ==
    \/ OnEnterSetAttributes
    \/ OnEnterUpdateChatCtx
    \/ OnEnterGenerateReply
    \/ \E kind \in AppendKinds : AppendItem(kind)
    \/ \E ts \in ToolSeqs(AllToolNames) : DeliverTransfers(ts)
    \/ \E t \in AllToolNames : DeliverUnknownTool(t)
    \/ ReportError
    \/ \E i \in 1..MaxCalls : ToolSay(i)
    \/ \E i \in 1..MaxCalls : ToolTransferToAgent(i)
    \/ Handoff

Spec == Init /\ [][Next]_vars

\* the handoff machine plus direct calls of _transfer_to_agent
NextDirect ==
    \/ Next
    \/ \E name \in DirectNames : DirectTransfer(name)

SpecDirect == Init /\ [][NextDirect]_vars

\* the medical office at its first handoff: TriageAgent was entered, had a
\* conversation of up to MaxTail items, and one of its transfer tools has
\* returned; on_enter of the target is about to run
Tails == UNION {[1..n -> AppendKinds] : n \in 0..MaxTail}

InitLong ==
    /\ app = "medical"
    /\ InitUserData
    /\ \E tail \in Tails :
          /\ chat_ctx = [r \in Instances("medical") |->
                            IF r = "TriageAgent"
                            THEN <<SystemMessage(1, "TriageAgent")>>
                                 \o [i \in 1..Len(tail) |-> ItemOfKind(i + 1, tail[i])]
                            ELSE <<>>]
          /\ nextId = Len(tail) + 2
    /\ current \in TransferTargetsOfTriage
    /\ prev_agent = "TriageAgent"
    /\ activeBefore = "TriageAgent"
    /\ phase = "enter_attr"
    /\ calls = <<>>
    /\ said = 1
    /\ attribute = "TriageAgent"
    /\ reply = FALSE
    /\ lastError = None
    /\ enterFault = None
    /\ faults = 0
    /\ tIn = NoTruncateCall
    /\ tOut = <<>>
    /\ tDone = FALSE

SpecLong == InitLong /\ [][Next]_vars

\* the personal shopper: handoffs and the role actions on UserData
InitShop ==
    /\ InitHandoff("shopper")
    /\ tIn = NoTruncateCall
    /\ tOut = <<>>
    /\ tDone = FALSE

\* every step of the personal shopper but the saving of an order
NextShopUnsaved ==
    \/ OnEnterSetAttributes
    \/ OnEnterUpdateChatCtx
    \/ OnEnterGenerateReply
    \/ \E t \in AllToolNames : nextId <= MaxEntries /\ DeliverTransfers(<<t>>)
    \/ \E i \in 1..MaxCalls : ToolSay(i)
    \/ \E i \in 1..MaxCalls : ToolTransferToAgent(i)
    \/ Handoff
    \/ \E p \in Names : IdentifyCustomer(p)
    \/ StartOrder
    \/ \E item \in Catalog : AddItemToOrder(item)
    \/ GetOrderHistory

NextShop ==
    \/ NextShopUnsaved
    \/ CompleteOrderTool

SpecShop == InitShop /\ [][NextShop]_vars

\* the personal shopper with collaborators that may fail: the store, the
\* room's set_attributes, session.say and the merge of the previous history.
\* The orders table is out of service for the whole conversation: every
\* db.add_order raises.
NextFault ==
    \/ NextShopUnsaved
    \/ ReportError
    \/ \E p \in Names : IdentifyCustomerStoreFails(p)
    \/ CompleteOrderStoreFails
    \/ GetOrderHistoryStoreFails
    \/ OnEnterSetAttributesFails
    \/ OnEnterMergeFails
    \/ \E i \in 1..MaxCalls : ToolSayFails(i)

SpecFault == InitShop /\ [][NextFault]_vars

\* _truncate_chat_ctx applied to every history of at most MaxLen items
Histories ==
    UNION {{[i \in 1..n |-> ItemOfKind(i, kinds[i])] : kinds \in [1..n -> ItemKinds]}
           : n \in 0..MaxLen}

InitTruncate ==
    /\ InitHandoff("medical")
    /\ tIn \in [items : Histories, n : 0..MaxKeep, ks : BOOLEAN, kf : BOOLEAN]
    /\ tOut = <<>>
    /\ tDone = FALSE

ApplyTruncate ==
    /\ ~tDone
    /\ tOut' = TruncateChatCtx(tIn.items, tIn.n, tIn.ks, tIn.kf)
    /\ tDone' = TRUE
    /\ UNCHANGED <<tIn, app, current, prev_agent, chat_ctx, nextId, phase, calls,
                   said, attribute, reply, lastError, activeBefore, shopVars, enterFault, faults>>

SpecTruncate == InitTruncate /\ [][ApplyTruncate]_vars


\* ------------------------------------------------------------- helpers
RECURSIVE IsSubsequence(_, _)
IsSubsequence(s, t) ==
    IF s = <<>> THEN TRUE
    ELSE IF t = <<>> THEN FALSE
    ELSE IF s[1] = t[1] THEN IsSubsequence(Tail(s), Tail(t))
    ELSE IsSubsequence(s, Tail(t))

DistinctIds(items) ==
    \A i, j \in 1..Len(items) : i # j => items[i].id # items[j].id

EnterPhases == {"enter_attr", "enter_merge", "enter_reply"}

\* what _truncate_chat_ctx has collected before the leading calls are dropped
Collected == Reverse(CollectReversed(tIn.items, Len(tIn.items), <<>>, tIn.n, tIn.ks, tIn.kf))

\* ================================================================ claims

\* C1: for every history and every keep_last_n_messages k >= 0 the result
\* of _truncate_chat_ctx has at most k items.
TruncationBound == tDone => Len(tOut) <= tIn.n

\* C2: the result of _truncate_chat_ctx is empty or starts with an item of
\* type message, never with a function_call or function_call_output.
NoOrphanedCalls == tDone => (tOut = <<>> \/ tOut[1].type = "message")

\* C2 witness: leading call items were collected and dropped, and a
\* message is left at the front
OrphanedCallsDropped ==
    /\ tDone
    /\ tOut # <<>>
    /\ Len(tOut) < Len(Collected)

\* C3: the result of _truncate_chat_ctx is a subsequence of the history:
\* its items occur in the history, in the same relative order.
OrderPreserved == tDone => IsSubsequence(tOut, tIn.items)

\* C3 witness: a result of several items that skips items of the history
SeveralItemsKept ==
    /\ tDone
    /\ Len(tOut) >= 2
    /\ \E i \in 1..Len(tIn.items) :
          /\ tIn.items[i].id > tOut[1].id
          /\ tIn.items[i].id \notin IdsOf(tOut)

\* C4: after any sequence of handoffs no context holds two items with the
\* same id.
NoDuplicateIds == \A r \in Instances(app) : DistinctIds(chat_ctx[r])

\* C4 witness: a role has been entered again and its context holds an item
\* that the role it came from holds too
RoleReentered ==
    /\ phase = "idle"
    /\ prev_agent \notin {None, current}
    /\ \E i, j \in 1..Len(chat_ctx[current]) :
          /\ i < j
          /\ chat_ctx[current][i] = SystemMessage(chat_ctx[current][i].id, current)
          /\ chat_ctx[current][j] = SystemMessage(chat_ctx[current][j].id, current)
    /\ \E i \in 1..Len(chat_ctx[current]) :
          /\ chat_ctx[current][i].role # "system"
          /\ chat_ctx[current][i].id \in IdsOf(chat_ctx[prev_agent])

\* C5: a successful transfer sets prev_agent to the agent that was active
\* when it was invoked and returns the registry entry of its target; when
\* on_enter of the target runs, prev_agent is the agent active just before.
TransferSetsPrevious ==
    /\ \A i \in DOMAIN calls :
          (calls[i].step = Returned /\ ~calls[i].raised) =>
              /\ prev_agent = current
              /\ calls[i].ret = Personas(app)[TransferTools(app, current)[calls[i].tool]]
    /\ (phase \in EnterPhases /\ activeBefore # None) => prev_agent = activeBefore

\* C5 witness: on_enter of a target runs after a transfer from a role other
\* than the starting one
EnteredFromLaterRole ==
    /\ phase = "enter_merge"
    /\ activeBefore \notin {None, "TriageAgent"}

\* C6: a transfer attempt that cannot be resolved (unknown tool of the
\* active role, or a name that is no key of the registry) fails with an
\* error and leaves the active role and prev_agent unchanged.
FailedTransferChangesNothing ==
    [][(lastError = None /\ lastError' # None) =>
          (current' = current /\ prev_agent' = prev_agent /\ phase' = phase)]_vars

\* C6 witness: a lookup of an unregistered name has failed after an earlier
\* transfer had set prev_agent
UnknownRoleRaised ==
    /\ lastError = "KeyError"
    /\ prev_agent \notin {None, current}

\* C7: in every transfer the announcement is issued before prev_agent is
\* updated and before on_enter of the target runs; no reply of the target
\* is requested before the announcement.
AnnouncedBeforeSwitch ==
    /\ \A i \in DOMAIN calls :
          (calls[i].ret # None \/ calls[i].raised) => calls[i].announced
    /\ ((phase \in EnterPhases \/ reply) /\ activeBefore # None) => said >= 1

\* C7 witness: the reply of a target role has been requested
TargetReplyRequested ==
    /\ reply
    /\ activeBefore # None

\* C8: transfers are serialized: once a transfer tool has begun (its
\* announcement awaited) no second transfer tool begins before the first
\* has completed, even when two calls are delivered for one utterance.
TransfersSerialized ==
    Cardinality({i \in DOMAIN calls : calls[i].step > 1}) <= 1

\* the state after one whole transfer by `tool` of the role `role`: the
\* announcement, _transfer_to_agent, and on_enter of the target, applied
\* to the state s
TransferApplied(s, tool, role) ==
    LET r == TransferToAgent(TransferTools(app, role)[tool], role, s.prev_agent, app)
    IN  [prev_agent |-> r.prev_agent,
         current |-> r.ret,
         chat_ctx |-> OnEnterCommit(r.ret, r.prev_agent, s.chat_ctx, s.nextId),
         nextId |-> s.nextId + 1,
         said |-> s.said + 1,
         replies |-> s.replies + 1]

Here == [prev_agent |-> prev_agent, current |-> current, chat_ctx |-> chat_ctx,
         nextId |-> nextId, said |-> 0, replies |-> 0]

Once(tool) == TransferApplied(Here, tool, current)

Twice(tool) == TransferApplied(Once(tool), tool, current)

RegistryInvariant ==
    /\ current \in Instances(app)
    /\ prev_agent \in Instances(app) \cup {None}
    /\ prev_agent = None =>
          /\ activeBefore = None
          /\ \A i \in DOMAIN calls : calls[i].ret = None

\* C10 witness: a second transfer has set prev_agent
PreviousIsLaterRole ==
    /\ phase = "idle"
    /\ prev_agent \notin {None, "TriageAgent"}


\* C11: a handoff never changes the history of an inactive role:
\* truncation does not change the list it is given, and only the active
\* role's context changes, when items are appended to it or when its
\* on_enter commits; the previous role's history stays as it was.
HandoffFreezesHistory ==
    [][\A r \in Instances(app) :
          chat_ctx'[r] # chat_ctx[r] =>
              (r = current /\ phase \in {"idle", "enter_merge"})]_vars

\* C11 witness: on_enter has committed a context that carries over some
\* items of the previous role while truncation left others out
TruncatedHistoryMerged ==
    /\ phase = "enter_reply"
    /\ prev_agent # None
    /\ TruncateChatCtx(chat_ctx[prev_agent], KeepLastN, FALSE, TRUE)
           \notin {<<>>, chat_ctx[prev_agent]}


\* a step that is a call of the role action `op`
Called(op) == lastResult' # lastResult /\ lastResult'.op = op

ZeroItems(order) == order = NoOrder \/ order.items = <<>>

\* the sum of quantity x price over the lines of an order, last line first
RECURSIVE SumOfLines(_, _)
SumOfLines(items, k) ==
    IF k = 0 THEN 0
    ELSE SumOfLines(items, k - 1) + items[k].quantity * items[k].price

SessionUnchanged ==
    /\ first_name' = first_name
    /\ last_name' = last_name
    /\ customer_id' = customer_id
    /\ current_order' = current_order

\* C12: an order in progress belongs to the identified customer only: an
\* order started while one customer was identified is never present in
\* the session under another customer identity.
OrderBelongsToIdentified ==
    current_order # NoOrder => orderOwner = customer_id

\* C13: identify_customer is idempotent: every call for a name pair
\* resolves to the id the first call resolved to, from any role, and adds
\* no further row; distinct name pairs resolve to distinct ids.
IdentificationIdempotent ==
    /\ IsIdentified(first_name, last_name) =>
          customer_id = resolved[<<first_name, last_name>>]
    /\ \A p, q \in Names :
          (p # q /\ resolved[p] # 0 /\ resolved[q] # 0) => resolved[p] # resolved[q]
    /\ \A i, j \in 1..Len(customers) : i # j => customers[i] # customers[j]

\* C13 witness: the first customer is identified again, in another role,
\* after a second customer was created
IdentifiedAgainElsewhere ==
    /\ lastResult.op = "identify_customer"
    /\ current # "TriageAgent"
    /\ Len(customers) = 2
    /\ customer_id = 1

\* C14: with a customer identified and at least one item in the order,
\* complete_order computes the total as the sum of quantity x price,
\* saves the order with that total once under the current customer id,
\* and leaves no order in progress.
CompleteOrderSavesTotal ==
    [][(/\ Called("complete_order")
        /\ IsIdentified(first_name, last_name)
        /\ ~ZeroItems(current_order)) =>
           /\ lastResult'.ret = "order_completed"
           /\ orders' = Append(orders,
                  [customer_id |-> customer_id,
                   order_details |->
                       [items |-> current_order.items,
                        total |-> SumOfLines(current_order.items,
                                             Len(current_order.items))]])
           /\ current_order' = NoOrder]_vars

\* C14 witness: the order of two teas at 100 and one cup at 50 was saved
\* with the total 250
OrderOfTwoLinesSaved ==
    /\ lastResult.ret = "order_completed"
    /\ current_order = NoOrder
    /\ orders # <<>>
    /\ Len(orders[Len(orders)].order_details.items) = 2
    /\ orders[Len(orders)].order_details.total = 250

\* C15 as stated: complete_order on an order with zero items (none
\* started, or one started with nothing added) returns the empty-order
\* outcome, saves nothing and leaves the session state unchanged.
EmptyOrderRefused ==
    [][(Called("complete_order") /\ ZeroItems(current_order)) =>
           /\ lastResult'.ret = "empty_order"
           /\ orders' = orders
           /\ SessionUnchanged]_vars

\* C15 amended: when a customer is identified, complete_order on an order
\* with zero items returns the empty-order outcome, saves nothing and
\* leaves the session state unchanged.
EmptyOrderRefusedWhenIdentified ==
    [][(/\ Called("complete_order")
        /\ IsIdentified(first_name, last_name)
        /\ ZeroItems(current_order)) =>
           /\ lastResult'.ret = "empty_order"
           /\ orders' = orders
           /\ SessionUnchanged]_vars

\* C15 witness: complete_order was refused for an order that was started
\* with nothing added
StartedOrderRefused ==
    /\ lastResult.op = "complete_order"
    /\ lastResult.ret = "empty_order"
    /\ current_order = [items |-> <<>>]

\* C16: with no customer identified complete_order returns the
\* no-identity outcome whatever the order holds, saves nothing and leaves
\* the order as it is; this check comes before the empty-order check.
NoIdentityRefusedFirst ==
    [][(Called("complete_order") /\ ~IsIdentified(first_name, last_name)) =>
           /\ lastResult'.ret = "identify_first"
           /\ orders' = orders
           /\ SessionUnchanged]_vars

\* C16 witness: complete_order was refused because no customer is
\* identified, there being no order either
UnidentifiedRefused ==
    /\ lastResult.op = "complete_order"
    /\ lastResult.ret = "identify_first"
    /\ ZeroItems(current_order)

\* C17: when the store fails during identify_customer, complete_order or
\* get_order_history, the role action does not raise but returns a textual
\* failure explanation
StoreFailureExplained ==
    lastResult.op \in {"identify_customer", "complete_order", "get_order_history"}
        => lastResult.ret # Raised

\* C18: a failure of set_attributes does not keep on_enter from committing
\* the context and requesting a reply, and a failure of the announcement
\* does not keep the transfer tool from returning the target role
SideEffectFailuresTolerated ==
    /\ enterFault = "set_attributes" => (phase \in EnterPhases \/ reply)
    /\ \A i \in DOMAIN calls :
          (calls[i].step = Returned /\ ~calls[i].announced) => calls[i].ret # None

\* C19: when truncating or merging the previous history fails, on_enter
\* goes on with the role's own untouched context and requests a reply
MergeFailureFallsBack ==
    enterFault = "merge" => (phase \in EnterPhases \/ reply)

\* an item is eligible unless it is a system message and system messages
\* are not kept, or it is a call item and call items are not kept
Eligible(item) ==
    /\ ~(item.type = "message" /\ item.role = "system" /\ ~tIn.ks)
    /\ ~(item.type \in CallTypes /\ ~tIn.kf)

EligibleItems == SelectSeq(tIn.items, Eligible)

\* the last min(k, Len(s)) items of s
MostRecent(s, k) ==
    LET m == IF k < Len(s) THEN k ELSE Len(s)
    IN  SubSeq(s, Len(s) - m + 1, Len(s))

\* length of the longest prefix of s that holds call items only
LeadingCallRun(s) ==
    CHOOSE j \in 0..Len(s) :
        /\ \A i \in 1..j : s[i].type \in CallTypes
        /\ j < Len(s) => s[j + 1].type \notin CallTypes

\* C20: for k >= 1 the result is the most recent min(k, number of eligible
\* items) eligible items in chronological order, without the maximal
\* leading run of call items
TruncateReturnsRecentEligible ==
    (tDone /\ tIn.n >= 1) =>
        LET recent == MostRecent(EligibleItems, tIn.n)
        IN  tOut = SubSeq(recent, LeadingCallRun(recent) + 1, Len(recent))

\* a history with an ineligible item and more eligible items than k, whose
\* most recent k eligible items start with a call item
RecentEligibleTruncated ==
    /\ tDone
    /\ tIn.n >= 1
    /\ Len(EligibleItems) > tIn.n
    /\ Len(EligibleItems) < Len(tIn.items)
    /\ tOut # <<>>
    /\ Len(tOut) < tIn.n

\* the item on_enter has just appended
LastItem(items) == items[Len(items)]

\* on_enter commits its context
Commits == phase = "enter_merge" /\ phase' = "enter_reply"

\* C22: the system message on_enter appends carries the entering role's
\* name and a summary of the shared state at that time, which tells whether
\* a customer is identified and whether an order is in progress
SummaryReflectsSharedState ==
    [][Commits =>
          LET m == LastItem(chat_ctx'[current])
          IN  /\ m.role = "system"
              /\ m.content = current
              /\ (m.summary.text = "customer")
                     = (first_name # None /\ last_name # None)
              /\ "order" \in DOMAIN m.summary
              /\ m.summary.order = (current_order # NoOrder)]_vars

\* C24: an order is in progress only if a customer is identified;
\* start_order and add_item_to_order without an identified customer return
\* the identification prompt and leave the order alone; no step clears
\* the identity
OrderOnlyWhenIdentified ==
    [][/\ (first_name # None /\ last_name # None)
              => (first_name' # None /\ last_name' # None)
       /\ current_order' # NoOrder => (first_name' # None /\ last_name' # None)
       /\ ((Called("start_order") \/ Called("add_item_to_order"))
              /\ (first_name = None \/ last_name = None))
              => /\ lastResult'.ret = "identify_first"
                 /\ current_order' = current_order]_vars

\* the sales agent was entered and asked to add an item before anybody
\* was identified
UnidentifiedAddRefused ==
    /\ lastResult.op = "add_item_to_order"
    /\ lastResult.ret = "identify_first"
    /\ prev_agent = "TriageAgent"
    /\ current_order = NoOrder

\* C25: add_item_to_order appends one line item to the items so far (to
\* none when no order is in progress), start_order leaves an empty order
\* whatever was in progress, and no other step but complete_order, a
\* handoff in particular, changes the order
OrderLifecycle ==
    [][/\ (Called("add_item_to_order") /\ lastResult'.ret = "item_added")
              => \E item \in Catalog :
                    current_order'.items
                        = Append(IF current_order = NoOrder THEN <<>>
                                 ELSE current_order.items, item)
       /\ (Called("start_order") /\ lastResult'.ret = "order_started")
              => current_order' = [items |-> <<>>]
       /\ lastResult' = lastResult => current_order' = current_order]_vars

\* an order of two line items is still there after the handoff from the
\* sales agent to the returns agent
OrderCarriedToReturns ==
    /\ current = "ReturnsAgent"
    /\ prev_agent = "SalesAgent"
    /\ phase = "idle"
    /\ current_order # NoOrder
    /\ Len(current_order.items) = 2

\* C21: on_enter commits the role's own context as it was, then the
\* truncated items of the previous role that are not in it yet, in their
\* order, then one new system message; the reply is requested after the
\* commit, once for each entry
CommittedContextShape ==
    [][/\ Commits =>
            LET own == chat_ctx[current]
                new == chat_ctx'[current]
                truncated == IF prev_agent = None THEN <<>>
                             ELSE TruncateChatCtx(chat_ctx[prev_agent], KeepLastN,
                                                  FALSE, TRUE)
                carried == SubSeq(new, Len(own) + 1, Len(new) - 1)
            IN  /\ Len(new) > Len(own)
                /\ SubSeq(new, 1, Len(own)) = own
                /\ carried = SelectSeq(truncated,
                                       LAMBDA item : item.id \notin IdsOf(own))
                /\ \A i \in 1..Len(carried) : carried[i].role # "system"
                /\ LastItem(new).role = "system"
                /\ LastItem(new).id \notin IdsOf(own) \cup IdsOf(carried)
                /\ ~reply'
       /\ (reply' /\ ~reply) => (phase = "enter_reply" /\ chat_ctx' = chat_ctx)
       /\ (phase = "enter_reply" /\ phase' # phase) => (reply' /\ ~reply)]_vars

\* a role that was active before is entered again: its committed context
\* starts with its earlier context, carries items of the previous role and
\* ends with the new system message; the reply is still to be requested
MergedContextCommitted ==
    /\ phase = "enter_reply"
    /\ ~reply
    /\ prev_agent # None
    /\ Len(chat_ctx[current]) >= 4
    /\ chat_ctx[current][1].role = "system"
    /\ chat_ctx[current][1].content = current
    /\ \E i \in 2..(Len(chat_ctx[current]) - 1) : chat_ctx[current][i].role # "system"
    /\ LastItem(chat_ctx[current]).role = "system"

\* the agents a transfer tool of `agent` leads to
TransferTargets(a, agent) ==
    {Personas(a)[TransferTools(a, agent)[t]] : t \in DOMAIN TransferTools(a, agent)}

\* the agents reachable from those of `seen` by any number of transfers
RECURSIVE ReachableByTransfers(_, _)
ReachableByTransfers(a, seen) ==
    LET more == seen \cup UNION {TransferTargets(a, r) : r \in seen}
    IN  IF more = seen THEN seen ELSE ReachableByTransfers(a, more)

\* C26: every transfer tool names a registered role other than the one that
\* defines it; so no transfer raises for an unknown role, the previous role
\* differs from the active one once a transfer is over, and every role is
\* reachable from every other role
TransfersWellFormed ==
    /\ \A a \in Apps : \A agent \in Instances(a) :
          \A t \in DOMAIN TransferTools(a, agent) :
             /\ TransferTools(a, agent)[t] \in DOMAIN Personas(a)
             /\ Personas(a)[TransferTools(a, agent)[t]] # agent
    /\ lastError # "KeyError"
    /\ \A i \in DOMAIN calls : ~calls[i].raised
    /\ (phase # "tools" /\ prev_agent # None) => prev_agent # current
    /\ \A a \in Apps : \A r \in Instances(a) :
          ReachableByTransfers(a, {r}) = Instances(a)

\* every role of the registry has been entered by now
EveryRoleEntered ==
    /\ \A r \in Instances(app) : chat_ctx[r] # <<>>
    /\ phase = "idle"
    /\ prev_agent \notin {None, "TriageAgent"}

\* the items of a history that are not system messages
NonSystem(items) == SelectSeq(items, LAMBDA item : item.role # "system")

\* position of the last message in a sequence that holds one
LastMessageAt(items) ==
    CHOOSE k \in 1..Len(items) :
        /\ items[k].type = "message"
        /\ \A i \in (k + 1)..Len(items) : items[i].type # "message"

ItemsOf(items) == {items[i] : i \in 1..Len(items)}

\* C23: when one of the previous role's six most recent non-system items is
\* a message, the context the target commits holds the previous role's most
\* recent non-system message and every non-system item after it; no system
\* message of the previous role is carried over
ContinuityAcrossHandoff ==
    [][(Commits /\ prev_agent # None) =>
          LET own == chat_ctx[current]
              new == chat_ctx'[current]
              nonSystem == NonSystem(chat_ctx[prev_agent])
              recent == MostRecent(nonSystem, KeepLastN)
          IN  /\ (\E i \in 1..Len(recent) : recent[i].type = "message")
                    => \A i \in LastMessageAt(nonSystem)..Len(nonSystem) :
                          nonSystem[i] \in ItemsOf(new)
              /\ \A i \in (Len(own) + 1)..(Len(new) - 1) : new[i].role # "system"]_vars

\* the previous role had more than six non-system items, the last of them
\* a call item: the target holds that one and not the oldest one
LongHistoryHandedOver ==
    /\ phase = "enter_reply"
    /\ prev_agent # None
    /\ Len(NonSystem(chat_ctx[prev_agent])) > KeepLastN
    /\ LastItem(chat_ctx[prev_agent]).type \in CallTypes
    /\ LastItem(chat_ctx[prev_agent]) \in ItemsOf(chat_ctx[current])
    /\ NonSystem(chat_ctx[prev_agent])[1] \notin ItemsOf(chat_ctx[current])

====
